---------------------------- MODULE Spec2Model ----------------------------
(***************************************************************************)
(* A model of .ci/validate-examples.py: the validator of the examples      *)
(* tree, its two template catalogs and the recipes under .saturn/.         *)
(*                                                                         *)
(* Strings are sequences of atoms.  File and directory names are spelled   *)
(* one character per atom, so that the two name regexes are decided        *)
(* character by character; the literals the code searches for in recipe    *)
(* fields and notebook sources ("example-", "examples/", ":", "/",         *)
(* "@delayed", ...) are single atoms.                                      *)
(*                                                                         *)
(* The file system, the catalogs and the answers of the network are the    *)
(* inputs of a run.  They are drawn in Init and never change; the run      *)
(* itself is sequential.                                                   *)
(***************************************************************************)
EXTENDS Integers, Sequences, FiniteSets, TLC

VARIABLES
    pc,             \* position of the main script
    listing,        \* input: the entries of EXAMPLES_DIR, in os.listdir order
    catalogs,       \* input: the "templates" lists of the two catalog files
    SKIP_IMAGE_CHECK, \* input: the --skip-image-check switch
    ERRORS,         \* ErrorCollection._errors
    example_dirs,   \* the names os.listdir returned
    c,              \* number of catalogs opened so far
    templates,      \* the "templates" list of the open catalog
    t,              \* number of entries of the open catalog processed so far
    template,       \* the catalog entry processed last
    weights,        \* the dict title -> weight of the open catalog, as a list of pairs
    d,              \* number of listing entries processed so far
    stdout,         \* the numbered lines report() printed
    exit_code       \* the exit status of the process, None while it runs

vars == <<pc, listing, catalogs, SKIP_IMAGE_CHECK, ERRORS, example_dirs, c,
          templates, t, template, weights, d, stdout, exit_code>>

inputs == <<listing, catalogs, SKIP_IMAGE_CHECK>>

---------------------------------------------------------------------------
(* Bounds of the model *)

MaxDirs == 2        \* entries of EXAMPLES_DIR
MaxTemplates == 3   \* entries of the hosted catalog
MaxCells == 2       \* cells of a notebook
MaxExcess == 2      \* how far past ExitStatusRange the long notebooks go

(* Program constants *)

ExitStatusRange == 256
MaxWorkers == 3
HttpOk == 200

\* Optional values (None, a missing key, a process still running) are <<>>, and
\* a present value v is <<v>>.
None == <<>>
Some(v) == <<v>>

---------------------------------------------------------------------------
(* Strings *)

\* "".join(parts), and the concatenation of lists: halves are joined first
RECURSIVE Join(_)
Join(parts) ==
    IF Len(parts) = 0 THEN <<>>
    ELSE IF Len(parts) = 1 THEN parts[1]
    ELSE LET half == Len(parts) \div 2
         IN  Join(SubSeq(parts, 1, half)) \o Join(SubSeq(parts, half + 1, Len(parts)))

StartsWith(s, prefix) ==
    /\ Len(s) >= Len(prefix)
    /\ SubSeq(s, 1, Len(prefix)) = prefix

EndsWith(s, suffix) ==
    /\ Len(s) >= Len(suffix)
    /\ SubSeq(s, Len(s) - Len(suffix) + 1, Len(s)) = suffix

Contains(s, atom) == \E i \in 1..Len(s) : s[i] = atom

\* str.split(sep): the pieces between the occurrences of sep, always at least one
RECURSIVE SplitFrom(_, _, _)
SplitFrom(s, sep, piece) ==
    IF s = <<>> THEN <<piece>>
    ELSE IF Head(s) = sep THEN <<piece>> \o SplitFrom(Tail(s), sep, <<>>)
    ELSE SplitFrom(Tail(s), sep, Append(piece, Head(s)))

Split(s, sep) == SplitFrom(s, sep, <<>>)

\* str.rsplit(sep, 2): at most the last two separators split
RSplit2(s, sep) ==
    LET pieces == Split(s, sep)
        n == Len(pieces)
        Glue(ps) == Join([i \in 1..(2 * Len(ps) - 1) |->
                          IF i % 2 = 1 THEN ps[(i + 1) \div 2] ELSE <<sep>>])
    IN  IF n <= 3 THEN pieces
        ELSE <<Glue(SubSeq(pieces, 1, n - 2)), pieces[n - 1], pieces[n]>>

\* str.replace(atom, ""): every occurrence is removed
Remove(s, atom) == SelectSeq(s, LAMBDA x : x # atom)

---------------------------------------------------------------------------
(* The regexes *)

LowerDigitDash == {"a", "b", "c", "d", "e", "i", "j", "m", "n", "o", "p",
                   "r", "s", "t", "u", "x", "y", "0", "1", "-"}
Upper == {"A", "D", "E", "M", "R", "Z"}
Newline == "\n"

\* re.search(r"^[...]+$", s): one or more characters of the class; "$" also
\* matches before a single trailing newline
RegexMatch(s, class) ==
    LET body == IF Len(s) >= 1 /\ s[Len(s)] = Newline
                THEN SubSeq(s, 1, Len(s) - 1) ELSE s
    IN  /\ Len(body) >= 1
        /\ \A i \in 1..Len(body) : body[i] \in class

DIRECTORY_REGEX(s) == RegexMatch(s, LowerDigitDash)

FILENAME_REGEX(s) == RegexMatch(s, LowerDigitDash \cup Upper \cup {".", "_"})

ADMIN_DIRS == {<<"_", "i", "m", "g">>}
SATURN_DIR_NAME == <<".", "s", "a", "t", "u", "r", "n">>
SATURN_JSON_NAME == <<"s", "a", "t", "u", "r", "n", ".", "j", "s", "o", "n">>
README_NAME == <<"R", "E", "A", "D", "M", "E", ".", "m", "d">>
IPYNB == <<".", "i", "p", "y", "n", "b">>

---------------------------------------------------------------------------
(* Messages.  Every message has the same fields: the rule, the path or     *)
(* name it is about, a title or inner message, a number and a list.        *)

Msg(kind, path, title, n, list) ==
    [kind |-> kind, path |-> path, title |-> title, n |-> n, list |-> list]

---------------------------------------------------------------------------
(* The file system.  A node is a file or a directory:                      *)
(*   [name, isdir, kids, json]                                             *)
(* kids are the entries of a directory in scandir order; json is what      *)
(* json.load gives for a file, None when the file is not JSON.             *)

File(name, json) == [name |-> name, isdir |-> FALSE, kids |-> <<>>, json |-> json]
Dir(name, kids) == [name |-> name, isdir |-> TRUE, kids |-> kids, json |-> None]

Hidden(name) == Len(name) >= 1 /\ name[1] = "."

\* os.path.isfile / os.path.isdir of os.path.join(<node>, name)
Kid(node, name) ==
    LET hits == SelectSeq(node.kids, LAMBDA k : k.name = name)
    IN  IF node.isdir /\ hits # <<>> THEN Some(hits[1]) ELSE None

IsFileIn(node, name) == Kid(node, name) # None /\ ~Kid(node, name)[1].isdir
IsDirIn(node, name) == Kid(node, name) # None /\ Kid(node, name)[1].isdir

\* glob's walk below a directory: every entry whose name does not start with
\* a dot, each directory followed by what is below it
RECURSIVE Walk(_, _)
Walk(prefix, kids) ==
    IF kids = <<>> THEN <<>>
    ELSE LET k == Head(kids)
             here == prefix \o <<k.name>>
         IN  (IF Hidden(k.name) THEN <<>>
              ELSE <<[path |-> here, node |-> k]>>
                   \o (IF k.isdir THEN Walk(here, k.kids) ELSE <<>>))
             \o Walk(prefix, Tail(kids))

\* glob.glob(f"{full_dir}/**", recursive=True): "**" also matches nothing, so
\* the first result is full_dir itself with a trailing slash, whether full_dir
\* is a directory or not
GlobRecursive(e) ==
    <<[path |-> <<e.name, <<>>>>, node |-> e]>>
    \o (IF e.isdir THEN Walk(<<e.name>>, e.kids) ELSE <<>>)

\* glob.glob(f"{full_dir}/**", recursive=False): "**" is "*"
GlobFlat(e) ==
    IF e.isdir
    THEN [i \in 1..Len(SelectSeq(e.kids, LAMBDA k : ~Hidden(k.name))) |->
            LET k == SelectSeq(e.kids, LAMBDA x : ~Hidden(x.name))[i]
            IN  [path |-> <<e.name, k.name>>, node |-> k]]
    ELSE <<>>

Basename(path) == path[Len(path)]

\* os.path.normpath drops the trailing slash
Normpath(path) ==
    IF Len(path) > 1 /\ path[Len(path)] = <<>>
    THEN SubSeq(path, 1, Len(path) - 1) ELSE path

---------------------------------------------------------------------------
(* Notebooks *)

Cell(cell_type, outputs, execution_count, source) ==
    [cell_type |-> cell_type, outputs |-> outputs,
     execution_count |-> execution_count, source |-> source]

WarningsFilter == "warnings.filter"
DelayedDecorator == "@delayed"

_lint_python_cell(file_name, code_lines) ==
    LET code_str == Join(code_lines)
    IN  (IF Contains(code_str, WarningsFilter)
         THEN <<Msg("lint-warnings", file_name, "", 0, <<>>)>> ELSE <<>>)
        \o
        (IF Contains(code_str, DelayedDecorator)
         THEN <<Msg("lint-delayed", file_name, "", 0, <<>>)>> ELSE <<>>)

\* Mutant: the execution count is not looked at
CellIsNonEmpty_OutputsOnly(cell) == Len(cell.outputs) > 0

\* cell.get("outputs", []) or cell.get("execution_count", None), as a truth value
CellIsNonEmpty(cell) ==
    \/ Len(cell.outputs) > 0
    \/ (cell.execution_count # None /\ cell.execution_count[1] # 0)

\* The lint errors of the code cells, in cell order
LintCells(file_name, cells) ==
    Join([i \in 1..Len(cells) |->
            IF cells[i].cell_type = "code"
            THEN _lint_python_cell(file_name, cells[i].source) ELSE <<>>])

NonEmptyCells(cells) == Len(SelectSeq(cells, CellIsNonEmpty))

\* One notebook: the lint errors of its code cells in cell order, then the
\* "non-empty cells" error.  Opening a directory or a file that is not JSON
\* raises, and nothing catches it.
CheckNotebook(entry) ==
    IF entry.node.isdir \/ entry.node.json = None
    THEN [errors |-> <<>>, raised |-> TRUE]
    ELSE LET cells == entry.node.json[1]
             non_empty_cells == NonEmptyCells(cells)
         IN  [errors |-> LintCells(entry.path, cells)
                         \o (IF non_empty_cells > 0
                             THEN <<Msg("non-empty-cells", entry.path, "",
                                        non_empty_cells, <<>>)>>
                             ELSE <<>>),
              raised |-> FALSE]

RECURSIVE CheckNotebooks(_)
CheckNotebooks(notebook_files) ==
    IF notebook_files = <<>> THEN [errors |-> <<>>, raised |-> FALSE]
    ELSE LET first == CheckNotebook(Head(notebook_files))
         IN  IF first.raised THEN first
             ELSE LET rest == CheckNotebooks(Tail(notebook_files))
                  IN  [errors |-> first.errors \o rest.errors,
                       raised |-> rest.raised]

---------------------------------------------------------------------------
(* Recipes.  A recipe is what json.load gives for saturn.json:             *)
(*   conforms            whether jsonschema.validate accepts it            *)
(*   name, image_uri, working_directory      strings                       *)
(*   git_repositories    a list of repositories, each the set of its keys  *)
(*   jupyter_server, deployment, job, rstudio_server                       *)
(*                       None or [instance_type, keys]                     *)
(*   dask_cluster        None or [num_workers, worker_instance_type]       *)
(* and, for its image, what the network answers:                           *)
(*   token_ok            whether the token request (Docker Hub) or the     *)
(*                       aws command (public ECR) succeeds                 *)
(*   head_status         the status of the HEAD request for the manifest   *)

ExamplePrefix == "example-"
WorkingDirPrefix == "/home/jovyan/examples/examples/"
DockerIo == <<"docker.io">>
PublicEcr == <<"public.ecr.aws">>

\* the keys of the "tiers" mapping of constants.yaml
instance_type_options == {"medium", "large"}

Valid == [outcome |-> "valid", message |-> ""]
Invalid(message) == [outcome |-> "invalid", message |-> message]
Raised == [outcome |-> "raised", message |-> ""]

\* registry is None or Some(host).  Returns "yes", "no", or "raised" when the
\* token request or the aws command fails.
image_exists_on_registry(registry, token_ok, head_status) ==
    IF (registry = None \/ registry = Some(DockerIo)) /\ ~token_ok THEN "raised"
    ELSE IF registry = Some(PublicEcr) /\ ~token_ok THEN "raised"
    ELSE IF head_status = HttpOk THEN "yes" ELSE "no"

\* working_directory: the prefix, the example's name after it, a real path
CheckWorkingDirectory(recipe, example_dir, names) ==
    LET working_dir == recipe.working_directory
        working_dir_suffix == Remove(working_dir, WorkingDirPrefix)
        rel_path == Remove(working_dir, WorkingDirPrefix)
    IN  IF ~StartsWith(working_dir, <<WorkingDirPrefix>>)
        THEN Invalid("working_directory needs to start with")
        ELSE IF working_dir_suffix # example_dir
        THEN Invalid("working_directory needs to end with")
        ELSE IF rel_path \notin names
        THEN Invalid("working_directory needs to point to a real path")
        ELSE Valid

\* Mutant: the emptiness test is lost
CheckGitRepositories_OnlyPaths(recipe) ==
    LET git_repositories == recipe.git_repositories
    IN  IF ~(\A i \in 1..Len(git_repositories) : "path" \in git_repositories[i])
        THEN Invalid("At least one git_repository is missing a path")
        ELSE Valid

CheckGitRepositories(recipe) ==
    LET git_repositories == recipe.git_repositories
    IN  IF Len(git_repositories) < 1
        THEN Invalid("git_repositories cannot be empty")
        ELSE IF ~(\A i \in 1..Len(git_repositories) : "path" \in git_repositories[i])
        THEN Invalid("At least one git_repository is missing a path")
        ELSE Valid

\* instance_type, dask_cluster, disk_space.  With no workload at all,
\* resource is None and resource["instance_type"] raises TypeError.
CheckResource(recipe) ==
    LET jupyter == recipe.jupyter_server
        deployment == recipe.deployment
        job == recipe.job
        rstudio == recipe.rstudio_server
        resource == IF jupyter # None THEN jupyter
                    ELSE IF deployment # None THEN deployment
                    ELSE IF job # None THEN job ELSE rstudio
        workspace == IF jupyter # None THEN jupyter ELSE rstudio
        dask == recipe.dask_cluster
    IN  IF resource = None
        THEN Raised
        ELSE IF resource[1].instance_type \notin instance_type_options
        THEN Invalid("instance_type is not a valid option")
        ELSE IF dask # None /\ dask[1].num_workers > MaxWorkers
        THEN Invalid("there should not be more than 3 workers per dask cluster.")
        ELSE IF dask # None /\ dask[1].worker_instance_type # resource[1].instance_type
        THEN Invalid("Dask worker instance type should match")
        ELSE IF workspace # None /\ "disk_space" \notin workspace[1].keys
        THEN Invalid("disk_space is required for workspaces.")
        ELSE Valid

\* Mutant: git_repositories is checked before working_directory
AfterImageCheck_GitFirst(recipe, example_dir, names) ==
    LET working_directory == CheckWorkingDirectory(recipe, example_dir, names)
        git_repositories == CheckGitRepositories(recipe)
    IN  IF git_repositories # Valid THEN git_repositories
        ELSE IF working_directory # Valid THEN working_directory
        ELSE CheckResource(recipe)

\* The checks after the image check, in the order of the code
AfterImageCheck(recipe, example_dir, names) ==
    LET working_directory == CheckWorkingDirectory(recipe, example_dir, names)
        git_repositories == CheckGitRepositories(recipe)
    IN  IF working_directory # Valid THEN working_directory
        ELSE IF git_repositories # Valid THEN git_repositories
        ELSE CheckResource(recipe)

\* validate_recipe: "valid" when it returns, "invalid" when it raises
\* ValidationError, "raised" when it raises anything else.  file is the
\* saturn.json node; names are the entries of EXAMPLES_DIR.
validate_recipe(file, example_dir, skip_image_check, names) ==
    IF file.json = None THEN Raised
    ELSE
    LET recipe == file.json[1]
        name_pre == recipe.name
        uri_pieces == Split(recipe.image_uri, ":")
        image_name == uri_pieces[1]
        image_pieces == RSplit2(image_name, "/")
        image_registry == IF Len(image_pieces) = 3
                          THEN Some(image_pieces[1]) ELSE None
        image_exists == image_exists_on_registry(image_registry, recipe.token_ok,
                                                 recipe.head_status)
    IN  IF ~recipe.conforms
        THEN Invalid("schema")
        ELSE IF ~StartsWith(name_pre, <<ExamplePrefix>>)
        THEN Invalid("name needs to start with example-")
        ELSE IF Len(uri_pieces) # 2
        THEN Raised
        ELSE IF ~skip_image_check /\ image_exists = "raised"
        THEN Raised
        ELSE IF ~skip_image_check /\ image_exists = "no"
        THEN Invalid("image is not available on Docker Hub.")
        ELSE AfterImageCheck(recipe, example_dir, names)

---------------------------------------------------------------------------
(* The per-example validator: the body of the loop over example_dirs.      *)
(* Every part gives [errors, raised]: the messages it adds, in order, and  *)
(* whether it ended in an exception that nothing catches.                  *)

Adds(errors) == [errors |-> errors, raised |-> FALSE]

Then(first, rest) ==
    IF first.raised THEN first
    ELSE [errors |-> first.errors \o rest.errors, raised |-> rest.raised]

SecondLevelReadmes(e) ==
    LET first_level_dirs == GlobFlat(e)
        missing == SelectSeq(first_level_dirs,
                             LAMBDA f : f.node.isdir /\ ~IsFileIn(f.node, README_NAME))
    IN  [i \in 1..Len(missing) |->
            Msg("no-second-level-readme", missing[i].path, "", 0, <<>>)]

NameIsValid(f) ==
    IF f.node.isdir
    THEN LET base_name == Basename(Normpath(f.path))
         IN  DIRECTORY_REGEX(base_name) \/ base_name \in ADMIN_DIRS
    ELSE FILENAME_REGEX(Basename(f.path))

FileAndDirNames(all_files) ==
    LET bad == SelectSeq(all_files, LAMBDA f : ~NameIsValid(f))
    IN  [i \in 1..Len(bad) |->
            Msg(IF bad[i].node.isdir THEN "bad-dir-name" ELSE "bad-file-name",
                bad[i].path, "", 0, <<>>)]

\* From the README.md check to the end of the loop body
CheckRequiredFiles(e, skip_image_check, names) ==
    LET full_dir == <<e.name>>
        saturn_dir == <<e.name, SATURN_DIR_NAME>>
        saturn_json == <<e.name, SATURN_DIR_NAME, SATURN_JSON_NAME>>
        has_saturn_dir == IsDirIn(e, SATURN_DIR_NAME)
        has_saturn_json == /\ has_saturn_dir
                           /\ IsFileIn(Kid(e, SATURN_DIR_NAME)[1], SATURN_JSON_NAME)
        readme == IF ~IsFileIn(e, README_NAME)
                  THEN <<Msg("no-readme", full_dir, "", 0, <<>>)>> ELSE <<>>
        saturn == IF ~has_saturn_dir
                  THEN <<Msg("no-saturn-dir", full_dir, "", 0, <<>>)>> ELSE <<>>
    IN  IF ~has_saturn_json
        THEN Adds(readme \o saturn
                  \o <<Msg("no-saturn-json", saturn_dir, "", 0, <<>>)>>)
        ELSE LET result == validate_recipe(
                               Kid(Kid(e, SATURN_DIR_NAME)[1], SATURN_JSON_NAME)[1],
                               e.name, skip_image_check, names)
             IN  IF result.outcome = "raised"
                 THEN [errors |-> readme \o saturn, raised |-> TRUE]
                 ELSE IF result.outcome = "invalid"
                 THEN Adds(readme \o saturn
                           \o <<Msg("recipe", saturn_json, result.message, 0, <<>>)>>)
                 ELSE Adds(readme \o saturn)

\* After the emptiness check
CheckContents(e, all_files, skip_image_check, names) ==
    LET notebook_files == SelectSeq(all_files,
                                    LAMBDA f : EndsWith(Basename(f.path), IPYNB))
    IN  Then(Adds(SecondLevelReadmes(e)),
        Then(CheckNotebooks(notebook_files),
        Then(Adds(FileAndDirNames(all_files)),
             CheckRequiredFiles(e, skip_image_check, names))))

\* After the name check
CheckNamedExample(e, skip_image_check, names) ==
    LET all_files == GlobRecursive(e)
    IN  IF Len(all_files) = 0
        THEN Adds(<<Msg("empty", <<e.name>>, "", 0, <<>>)>>)
        ELSE CheckContents(e, all_files, skip_image_check, names)

\* Mutant: no `continue` after the naming error
CheckExample_NoContinue(e, skip_image_check, names) ==
    Then(Adds(IF ~DIRECTORY_REGEX(e.name)
              THEN <<Msg("example-name", <<e.name>>, "", 0, <<>>)>> ELSE <<>>),
         CheckNamedExample(e, skip_image_check, names))

CheckExample(e, skip_image_check, names) ==
    IF ~DIRECTORY_REGEX(e.name)
    THEN Adds(<<Msg("example-name", <<e.name>>, "", 0, <<>>)>>)
    ELSE CheckNamedExample(e, skip_image_check, names)

---------------------------------------------------------------------------
(* The template catalog checker: the body of the loop over templates.      *)
(* An entry is [title, weight, thumbnail, recipe_path], thumbnail being    *)
(* what requests.get answers: [responds, status_code].                     *)

ExamplesSlash == "examples/"

\* weights.items() with weight == value, in insertion order
Matches(dict, weight) ==
    LET hits == SelectSeq(dict, LAMBDA kv : kv.value = weight)
    IN  [i \in 1..Len(hits) |-> hits[i].key]

\* weights[title] = weight: an existing key keeps its place
DictSet(dict, key, value) ==
    IF \E i \in 1..Len(dict) : dict[i].key = key
    THEN [i \in 1..Len(dict) |->
            IF dict[i].key = key THEN [key |-> key, value |-> value] ELSE dict[i]]
    ELSE Append(dict, [key |-> key, value |-> value])

\* template["recipe_path"].split("examples/")[-1].split("/")[0]
ReferencedDir(recipe_path) ==
    LET after == Split(recipe_path, ExamplesSlash)
    IN  Split(after[Len(after)], "/")[1]

\* Mutant: the thumbnail message is added
TemplateErrors_AddsThumbnail(entry, dict, names) ==
    LET matches == Matches(dict, entry.weight)
        example_dir == ReferencedDir(entry.recipe_path)
    IN  (IF entry.thumbnail.status_code # HttpOk
         THEN <<Msg("thumbnail", <<>>, entry.title, 0, <<>>)>> ELSE <<>>)
        \o
        (IF matches # <<>>
         THEN <<Msg("weight", <<>>, entry.title, entry.weight, matches)>>
         ELSE <<>>)
        \o
        (IF \A i \in 1..Len(names) : names[i] # example_dir
         THEN <<Msg("no-such-example", <<example_dir>>, entry.title, 0, <<>>)>>
         ELSE <<>>)

\* The messages one entry adds.  The thumbnail message is built and dropped.
TemplateErrors(entry, dict, names) ==
    LET thumbnail_msg == IF entry.thumbnail.status_code # HttpOk
                         THEN <<Msg("thumbnail", <<>>, entry.title, 0, <<>>)>>
                         ELSE <<>>
        matches == Matches(dict, entry.weight)
        example_dir == ReferencedDir(entry.recipe_path)
    IN  (IF matches # <<>>
         THEN <<Msg("weight", <<>>, entry.title, entry.weight, matches)>>
         ELSE <<>>)
        \o
        (IF \A i \in 1..Len(names) : names[i] # example_dir
         THEN <<Msg("no-such-example", <<example_dir>>, entry.title, 0, <<>>)>>
         ELSE <<>>)

---------------------------------------------------------------------------
(* ErrorCollection *)

\* add(error), once for each message of new, in order
AddAll(errors, new) == errors \o new

num_errors(errors) == Len(errors)

\* The lines report() prints after the header: i starts at 1 and grows by
\* one with each line
Numbered(errors) ==
    [k \in 1..Len(errors) |-> [i |-> 1 + (k - 1), error |-> errors[k]]]

\* sys.exit(n): the parent process sees the low eight bits of n
ExitStatus(n) == n % ExitStatusRange

---------------------------------------------------------------------------
(* The run *)

Names(entries) == [i \in 1..Len(entries) |-> entries[i].name]

Running == exit_code = None

\* An uncaught exception: a traceback, status 1, no report
Crash ==
    /\ pc' = "crashed"
    /\ exit_code' = Some(1)

\* The schema and the instance types are fetched; a failed request or an
\* answer that does not parse raises
FetchResources ==
    /\ pc = "fetch"
    /\ \E ok \in BOOLEAN :
          IF ok THEN pc' = "listdir" /\ UNCHANGED exit_code ELSE Crash
    /\ UNCHANGED <<inputs, ERRORS, example_dirs, c, templates, t, template,
                   weights, d, stdout>>

ListExamples ==
    /\ pc = "listdir"
    /\ example_dirs' = Names(listing)
    /\ ERRORS' = IF Len(example_dirs') = 0
                 THEN Append(ERRORS, Msg("no-directories", <<>>, "", 0, <<>>))
                 ELSE ERRORS
    /\ pc' = "templates"
    /\ UNCHANGED <<inputs, c, templates, t, template, weights, d, stdout, exit_code>>

\* The next catalog file is opened and parsed; a missing file raises
OpenCatalog ==
    /\ pc = "templates"
    /\ c < 2
    /\ t = Len(templates)
    /\ IF catalogs[c + 1] = None
       THEN Crash /\ UNCHANGED <<c, templates, t, weights>>
       ELSE /\ c' = c + 1
            /\ templates' = catalogs[c + 1][1]
            /\ t' = 0
            /\ weights' = <<>>
            /\ pc' = IF c' = 2 /\ templates' = <<>> THEN "examples" ELSE "templates"
            /\ UNCHANGED exit_code
    /\ UNCHANGED <<inputs, ERRORS, example_dirs, template, d, stdout>>

TemplateStep ==
    /\ pc = "templates"
    /\ t < Len(templates)
    /\ template' = Some(templates[t + 1])
    /\ IF ~templates[t + 1].thumbnail.responds
       THEN Crash /\ UNCHANGED <<ERRORS, weights, t>>
       ELSE /\ ERRORS' = AddAll(ERRORS,
                                TemplateErrors(templates[t + 1], weights, example_dirs))
            /\ weights' = DictSet(weights, templates[t + 1].title,
                                  templates[t + 1].weight)
            /\ t' = t + 1
            /\ pc' = IF c = 2 /\ t' = Len(templates) THEN "examples" ELSE "templates"
            /\ UNCHANGED exit_code
    /\ UNCHANGED <<inputs, example_dirs, c, templates, d, stdout>>

ExampleStep ==
    /\ pc = "examples"
    /\ d < Len(example_dirs)
    /\ LET result == CheckExample(listing[d + 1], SKIP_IMAGE_CHECK,
                                  {example_dirs[i] : i \in 1..Len(example_dirs)})
       IN  /\ ERRORS' = AddAll(ERRORS, result.errors)
           /\ IF result.raised
              THEN Crash /\ UNCHANGED d
              ELSE d' = d + 1 /\ UNCHANGED <<pc, exit_code>>
    /\ UNCHANGED <<inputs, example_dirs, c, templates, t, template, weights, stdout>>

Report ==
    /\ pc = "examples"
    /\ d = Len(example_dirs)
    /\ stdout' = Numbered(ERRORS)
    /\ exit_code' = Some(ExitStatus(num_errors(ERRORS)))
    /\ pc' = "done"
    /\ UNCHANGED <<inputs, ERRORS, example_dirs, c, templates, t, template,
                   weights, d>>

Next ==
    \/ FetchResources
    \/ ListExamples
    \/ OpenCatalog
    \/ TemplateStep
    \/ ExampleStep
    \/ Report

Start ==
    /\ pc = "fetch"
    /\ ERRORS = <<>>
    /\ example_dirs = <<>>
    /\ c = 0
    /\ templates = <<>>
    /\ t = 0
    /\ template = None
    /\ weights = <<>>
    /\ d = 0
    /\ stdout = <<>>
    /\ exit_code = None

---------------------------------------------------------------------------
(* Inputs *)

RECURSIVE SeqsUpTo(_, _)
SeqsUpTo(S, n) ==
    IF n = 0 THEN {<<>>}
    ELSE LET shorter == SeqsUpTo(S, n - 1)
         IN  shorter \cup {Append(q, x) : q \in {r \in shorter : Len(r) = n - 1}, x \in S}

NameA == <<"a">>
NameB == <<"b", "-", "1">>
NameUpper == <<"A">>
NameUnderscore == <<"a", "_">>
NameNewline == <<"c", Newline>>
NameSub == <<"s", "u", "b">>
NameSpaced == <<"x", " ", "y">>
NameNotebook == <<"n">> \o IPYNB
NameHidden == <<".", "x">>

Workload(instance_type, keys) == [instance_type |-> instance_type, keys |-> keys]
Dask(num_workers, worker_instance_type) ==
    [num_workers |-> num_workers, worker_instance_type |-> worker_instance_type]

\* A recipe of the example directory `name` that passes every check
GoodRecipe(name) ==
    [conforms |-> TRUE,
     name |-> <<ExamplePrefix, "x">>,
     image_uri |-> <<"saturncloud", "/", "saturn", ":", "2021.11">>,
     token_ok |-> TRUE,
     head_status |-> HttpOk,
     working_directory |-> <<WorkingDirPrefix>> \o name,
     git_repositories |-> << {"url", "path"} >>,
     jupyter_server |-> Some(Workload("medium", {"instance_type", "disk_space"})),
     deployment |-> None,
     job |-> None,
     rstudio_server |-> None,
     dask_cluster |-> None]

Readme == File(README_NAME, None)
Saturn(recipe) == Dir(SATURN_DIR_NAME, <<File(SATURN_JSON_NAME, Some(recipe))>>)
GoodKids(name) == <<Readme, Saturn(GoodRecipe(name))>>
GoodDir(name) == Dir(name, GoodKids(name))

CleanCell == Cell("code", <<>>, None, << <<"import", "dask">> >>)
DirtyCell == Cell("code", <<"out">>, Some(1), << <<"x">> >>)
LintCell == Cell("code", <<>>, None, << <<"@delayed">>, <<"warnings.filter">> >>)

\* What a well-named example directory may hold
Shapes(name) ==
    {GoodKids(name),
     <<>>,
     <<Readme>>,
     <<Saturn(GoodRecipe(name))>>,
     <<Readme, Dir(SATURN_DIR_NAME, <<>>)>>,
     <<Readme, File(SATURN_DIR_NAME, None)>>,
     <<Readme, Dir(SATURN_DIR_NAME, <<File(SATURN_JSON_NAME, None)>>)>>,
     <<Readme, Saturn([GoodRecipe(name) EXCEPT !.name = <<"x">>])>>,
     <<Readme, Saturn([GoodRecipe(name) EXCEPT !.git_repositories = <<>>])>>,
     <<Readme, Saturn([GoodRecipe(name) EXCEPT !.image_uri = <<"ubuntu">>])>>,
     <<File(NameHidden, None)>>,
     GoodKids(name) \o <<Dir(NameSub, <<>>)>>,
     GoodKids(name) \o <<Dir(NameSub, <<Readme, File(NameSpaced, None)>>)>>,
     GoodKids(name) \o <<Dir(NameUpper, <<Readme>>)>>,
     GoodKids(name) \o <<Dir(<<"_", "i", "m", "g">>, <<>>)>>,
     GoodKids(name) \o <<File(NameNotebook, Some(<<CleanCell>>))>>,
     GoodKids(name) \o <<File(NameNotebook, Some(<<DirtyCell, LintCell>>))>>,
     GoodKids(name) \o <<File(NameNotebook, None)>>,
     <<Dir(NameSub, <<File(NameNotebook, Some(<<DirtyCell>>))>>)>>}

Trees ==
    UNION {{Dir(name, kids) : kids \in Shapes(name)} : name \in {NameA, NameB}}
    \cup UNION {{Dir(name, <<>>), GoodDir(name)} :
                 name \in {NameUpper, NameUnderscore, NameNewline}}
    \cup {File(name, None) : name \in {NameA, NameUpper}}

DistinctNames(entries) ==
    \A i, j \in 1..Len(entries) : i # j => entries[i].name # entries[j].name

Listings == {l \in SeqsUpTo(Trees, MaxDirs) : DistinctNames(l)}

Thumbnail(responds, status_code) == [responds |-> responds, status_code |-> status_code]

RecipePath(name) == <<"examples/">> \o name \o <<"/", ".saturn", "/", "saturn.json">>

Entry(title, weight, thumbnail, recipe_path) ==
    [title |-> title, weight |-> weight, thumbnail |-> thumbnail,
     recipe_path |-> recipe_path]

DefaultCatalogs ==
    <<Some(<<Entry("T", 1, Thumbnail(TRUE, HttpOk), RecipePath(NameA))>>),
      Some(<<Entry("U", 1, Thumbnail(TRUE, HttpOk), RecipePath(NameA))>>)>>

Init ==
    /\ Start
    /\ listing \in Listings
    /\ catalogs \in {DefaultCatalogs, <<DefaultCatalogs[1], None>>}
    /\ SKIP_IMAGE_CHECK = FALSE

Spec == Init /\ [][Next]_vars

---------------------------------------------------------------------------
(* Runs over many catalogs and one example directory *)

Entries ==
    {Entry(title, weight, Thumbnail(TRUE, status), RecipePath(NameA)) :
        title \in {"T", "U"}, weight \in {1, 2}, status \in {HttpOk, 404}}
    \cup {Entry("T", 1, Thumbnail(TRUE, HttpOk), RecipePath(<<"g">>)),
          Entry("U", 2, Thumbnail(TRUE, 404), <<"g">>),
          Entry("U", 1, Thumbnail(FALSE, 0), RecipePath(NameA))}

EnterpriseCatalogs ==
    {None, Some(<<>>)}
    \cup {Some(<<Entry(title, 1, Thumbnail(TRUE, status), RecipePath(NameA))>>) :
            title \in {"T", "V"}, status \in {HttpOk, 404}}

InitCatalog ==
    /\ Start
    /\ listing \in {<<>>, <<GoodDir(NameA)>>}
    /\ catalogs \in {<<Some(hosted), enterprise>> :
                        hosted \in SeqsUpTo(Entries, MaxTemplates),
                        enterprise \in EnterpriseCatalogs}
    /\ SKIP_IMAGE_CHECK = FALSE

SpecCatalog == InitCatalog /\ [][Next]_vars

---------------------------------------------------------------------------
(* Runs over many recipes of one example directory *)

ImageUris ==
    {<<"saturncloud", "/", "saturn", ":", "2021.11">>,
     <<"ubuntu", ":", "20.04">>,
     <<"docker.io", "/", "saturncloud", "/", "saturn", ":", "2021.11">>,
     <<"public.ecr.aws", "/", "saturncloud", "/", "saturn", ":", "2021.11">>,
     <<"ghcr.io", "/", "saturncloud", "/", "saturn", ":", "2021.11">>,
     <<"ubuntu">>,
     <<"localhost", ":", "5000", "/", "saturn", ":", "2021.11">>}

RecipeNames == {<<ExamplePrefix, "x">>, <<"x", ExamplePrefix>>}

WorkingDirectories(name) ==
    {<<WorkingDirPrefix>> \o name,
     <<"/home/jovyan/">> \o name,
     <<WorkingDirPrefix>> \o NameB,
     <<WorkingDirPrefix, WorkingDirPrefix>> \o name}

GitRepositories == {<<>>, << {"url", "path"} >>, << {"url", "path"}, {"url"} >>}

WithDisk == {"instance_type", "disk_space"}
NoDisk == {"instance_type"}

DaskClusters ==
    {None, Some(Dask(MaxWorkers, "medium")), Some(Dask(MaxWorkers + 1, "medium")),
     Some(Dask(1, "large"))}

\* The checks pass or fail independently of one another
RecipesByCheck(name) ==
    [conforms : BOOLEAN,
     name : RecipeNames,
     image_uri : {<<"saturncloud", "/", "saturn", ":", "2021.11">>},
     token_ok : {TRUE},
     head_status : {HttpOk, 404},
     working_directory : WorkingDirectories(name),
     git_repositories : GitRepositories,
     jupyter_server : {Some(Workload("medium", WithDisk)),
                       Some(Workload("medium", NoDisk)),
                       Some(Workload("huge", WithDisk))},
     deployment : {None},
     job : {None},
     rstudio_server : {None},
     dask_cluster : DaskClusters]

\* Every image_uri, with every answer of the registry
RecipesByImage(name) ==
    [conforms : BOOLEAN,
     name : RecipeNames,
     image_uri : ImageUris,
     token_ok : BOOLEAN,
     head_status : {HttpOk, 404},
     working_directory : {<<WorkingDirPrefix>> \o name},
     git_repositories : {<<>>, << {"url", "path"} >>},
     jupyter_server : {Some(Workload("medium", WithDisk))},
     deployment : {None},
     job : {None},
     rstudio_server : {None},
     dask_cluster : {None}]

\* Every combination of workloads
RecipesByWorkload(name) ==
    [conforms : {TRUE},
     name : {<<ExamplePrefix, "x">>},
     image_uri : {<<"saturncloud", "/", "saturn", ":", "2021.11">>},
     token_ok : {TRUE},
     head_status : {HttpOk},
     working_directory : {<<WorkingDirPrefix>> \o name},
     git_repositories : {<<>>, << {"url", "path"} >>},
     jupyter_server : {None, Some(Workload("medium", NoDisk))},
     deployment : {None, Some(Workload("large", NoDisk))},
     job : {None, Some(Workload("huge", NoDisk))},
     rstudio_server : {None, Some(Workload("medium", NoDisk)),
                       Some(Workload("medium", WithDisk))},
     dask_cluster : DaskClusters]

Recipes(name) ==
    RecipesByCheck(name) \cup RecipesByImage(name) \cup RecipesByWorkload(name)

InitRecipe ==
    /\ Start
    /\ listing \in {<<Dir(NameA, <<Readme, Saturn(recipe)>>)>> : recipe \in Recipes(NameA)}
    /\ catalogs = DefaultCatalogs
    /\ SKIP_IMAGE_CHECK \in BOOLEAN

SpecRecipe == InitRecipe /\ [][Next]_vars

---------------------------------------------------------------------------
(* Runs over many notebooks of one example directory *)

Cells ==
    {Cell(cell_type, outputs, execution_count, source) :
        cell_type \in {"code", "markdown"},
        outputs \in {<<>>, <<"out">>},
        execution_count \in {None, Some(0), Some(1)},
        source \in {<< <<"import", "dask">> >>, << <<"@delayed">>, <<"def", "f">> >>}}

Notebooks == {File(NameNotebook, Some(cells)) : cells \in SeqsUpTo(Cells, MaxCells)}

InitNotebook ==
    /\ Start
    /\ listing \in
         {<<Dir(NameA, GoodKids(NameA) \o <<notebook>> \o more)>> :
             notebook \in Notebooks,
             more \in {<<>>,
                       <<Dir(NameSub, <<Readme,
                                        File(NameNotebook, Some(<<DirtyCell>>))>>)>>}}
    /\ catalogs = DefaultCatalogs
    /\ SKIP_IMAGE_CHECK = FALSE

SpecNotebook == InitNotebook /\ [][Next]_vars

---------------------------------------------------------------------------
(* Runs that record many errors: one notebook of n code cells, each with   *)
(* one lint error                                                          *)

DelayedCell == Cell("code", <<>>, None, << <<"@delayed">> >>)

InitLong ==
    /\ Start
    /\ listing \in
         {<<Dir(NameA, GoodKids(NameA)
                       \o <<File(NameNotebook, Some([i \in 1..n |-> DelayedCell]))>>)>> :
             n \in 0..(ExitStatusRange + MaxExcess)}
    /\ catalogs = DefaultCatalogs
    /\ SKIP_IMAGE_CHECK = FALSE

SpecLong == InitLong /\ [][Next]_vars

---------------------------------------------------------------------------
(* What the claims speak of *)

\* The messages the step from this state to the next adds
NewErrors == SubSeq(ERRORS', Len(ERRORS) + 1, Len(ERRORS'))

OfKind(errors, kind) == SelectSeq(errors, LAMBDA m : m.kind = kind)

IsPrefix(p, q) == Len(p) <= Len(q) /\ SubSeq(q, 1, Len(p)) = p

\* The step about to be taken is the body of the loop for listing[d + 1]
AtExample == pc = "examples" /\ d < Len(listing)

\* The step about to be taken is the body of the loop for templates[t + 1]
AtTemplate == pc = "templates" /\ t < Len(templates)

HasSaturnJson(e) ==
    /\ IsDirIn(e, SATURN_DIR_NAME)
    /\ IsFileIn(Kid(e, SATURN_DIR_NAME)[1], SATURN_JSON_NAME)

SaturnJson(e) == Kid(Kid(e, SATURN_DIR_NAME)[1], SATURN_JSON_NAME)[1]

\* The notebooks below e, in glob order
Notebooks_Of(e) ==
    SelectSeq(GlobRecursive(e), LAMBDA f : EndsWith(Basename(f.path), IPYNB))

\* validate_recipe is reached for e and reads a recipe
ReadsRecipe(e) ==
    /\ DIRECTORY_REGEX(e.name)
    /\ ~CheckNotebooks(Notebooks_Of(e)).raised
    /\ HasSaturnJson(e)
    /\ SaturnJson(e).json # None

RecipeOf(e) == SaturnJson(e).json[1]

RecipeError(e, message) ==
    Msg("recipe", <<e.name, SATURN_DIR_NAME, SATURN_JSON_NAME>>, message, 0, <<>>)

---------------------------------------------------------------------------
(* C1: the error collection is append-only and ordered; the final report   *)
(* lists every recorded message once, numbered from 1 in the order of      *)
(* recording, and the exit status equals the number of recorded messages.  *)
(* As stated, this fails: the exit status is that number modulo 256.       *)

C1_ReportAndExitStatus ==
    [][/\ IsPrefix(ERRORS, ERRORS')
       /\ pc' = "done" =>
            /\ stdout' = [i \in 1..Len(ERRORS') |-> [i |-> i, error |-> ERRORS'[i]]]
            /\ exit_code' = Some(Len(ERRORS'))]_vars

\* What does hold: append-only, the numbered report, the status modulo 256
C1_AppendOnlyAndReport ==
    [][/\ IsPrefix(ERRORS, ERRORS')
       /\ pc' = "done" =>
            /\ stdout' = [i \in 1..Len(ERRORS') |-> [i |-> i, error |-> ERRORS'[i]]]
            /\ exit_code' = Some(Len(ERRORS') % ExitStatusRange)]_vars

---------------------------------------------------------------------------
(* C2: for an entry of EXAMPLES_DIR whose name does not match              *)
(* ^[0-9a-z\-]+$, the loop body records the naming error, exactly that     *)
(* one message, and goes on to the next entry.                             *)

C2_NamingErrorOnly ==
    [][(AtExample /\ ~DIRECTORY_REGEX(listing[d + 1].name)) =>
          /\ ERRORS' = Append(ERRORS, Msg("example-name", <<listing[d + 1].name>>,
                                          "", 0, <<>>))
          /\ d' = d + 1
          /\ pc' = "examples"]_vars

C2_Witness ==
    /\ d >= 1
    /\ ~DIRECTORY_REGEX(listing[d].name)
    /\ listing[d].kids # <<>>
    /\ ERRORS # <<>>
    /\ ERRORS[Len(ERRORS)].kind = "example-name"

---------------------------------------------------------------------------
(* C3: for a well-named example directory that contains no files at all,   *)
(* the loop body records the "is empty" error and nothing else.            *)
(* This fails: the recursive glob always returns the directory itself.     *)

C3_EmptyDirectoryOneError ==
    [][(AtExample /\ DIRECTORY_REGEX(listing[d + 1].name)
                  /\ listing[d + 1].isdir /\ listing[d + 1].kids = <<>>) =>
          ERRORS' = Append(ERRORS, Msg("empty", <<listing[d + 1].name>>, "", 0, <<>>))]_vars

---------------------------------------------------------------------------
(* C4: for an example directory without a .saturn/ subdirectory, the loop  *)
(* body records the missing-.saturn/ error and skips what remains: no      *)
(* missing-saturn.json error, no recipe validation.                        *)
(* This fails: the missing-saturn.json error is recorded too.              *)

C4_NoSaturnDirSkipsTheRest ==
    [][(AtExample /\ DIRECTORY_REGEX(listing[d + 1].name) /\ pc' # "crashed"
                  /\ ~IsDirIn(listing[d + 1], SATURN_DIR_NAME)) =>
          /\ Len(OfKind(NewErrors, "no-saturn-dir")) = 1
          /\ OfKind(NewErrors, "no-saturn-json") = <<>>
          /\ OfKind(NewErrors, "recipe") = <<>>]_vars

---------------------------------------------------------------------------
(* C5: a catalog entry records one uniqueness error iff an earlier entry   *)
(* of the same catalog has the same weight, and none otherwise.            *)
(* This fails when a title repeats: the dict is keyed by title.            *)

C5_OneErrorPerRepeatedWeight ==
    [][(AtTemplate /\ t' = t + 1) =>
          Len(OfKind(NewErrors, "weight")) =
             (IF \E i \in 1..t : templates[i].weight = templates[t + 1].weight
              THEN 1 ELSE 0)]_vars

---------------------------------------------------------------------------
(* C6: a thumbnail whose status is not 200 never adds a message: no        *)
(* thumbnail message is ever recorded, and an entry adds as many messages  *)
(* as the same entry with a thumbnail of status 200 would.                 *)

C6_ThumbnailNeverRecorded ==
    [][(AtTemplate /\ t' = t + 1) =>
          /\ OfKind(ERRORS', "thumbnail") = <<>>
          /\ Len(NewErrors) =
                Len(TemplateErrors([templates[t + 1] EXCEPT !.thumbnail.status_code = HttpOk],
                                   weights, example_dirs))]_vars

C6_Witness ==
    /\ template # None
    /\ template[1].thumbnail.responds
    /\ template[1].thumbnail.status_code # HttpOk
    /\ t >= 1
    /\ templates[t] = template[1]
    /\ exit_code = None

---------------------------------------------------------------------------
(* C7: for a recipe whose git_repositories is the empty list,              *)
(* validate_recipe raises "git_repositories cannot be empty", whatever     *)
(* the other fields are.  As stated, this fails: an earlier failing check  *)
(* raises its own message.                                                 *)

C7_EmptyGitAlwaysReported ==
    [][(AtExample /\ ReadsRecipe(listing[d + 1])
                  /\ RecipeOf(listing[d + 1]).git_repositories = <<>>) =>
          OfKind(NewErrors, "recipe") =
             <<RecipeError(listing[d + 1], "git_repositories cannot be empty")>>]_vars

\* The checks validate_recipe makes before git_repositories all pass
PassesEarlierChecks(recipe, example_dir, skip_image_check) ==
    /\ recipe.conforms
    /\ StartsWith(recipe.name, <<ExamplePrefix>>)
    /\ Len(Split(recipe.image_uri, ":")) = 2
    /\ \/ skip_image_check
       \/ /\ recipe.head_status = HttpOk
          /\ \/ recipe.token_ok
             \/ /\ Len(Split(Split(recipe.image_uri, ":")[1], "/")) >= 3
                /\ Split(recipe.image_uri, ":")[1][1] \notin {"docker.io", "public.ecr.aws"}
    /\ StartsWith(recipe.working_directory, <<WorkingDirPrefix>>)
    /\ Remove(recipe.working_directory, WorkingDirPrefix) = example_dir

\* C7, amended: with an empty git_repositories validate_recipe never
\* returns normally, and when the earlier checks pass it raises
\* "git_repositories cannot be empty".
C7_EmptyGitReportedAfterEarlierChecks ==
    [][(AtExample /\ ReadsRecipe(listing[d + 1])
                  /\ RecipeOf(listing[d + 1]).git_repositories = <<>>) =>
          /\ pc' # "crashed" => Len(OfKind(NewErrors, "recipe")) = 1
          /\ PassesEarlierChecks(RecipeOf(listing[d + 1]), listing[d + 1].name,
                                 SKIP_IMAGE_CHECK) =>
                /\ pc' # "crashed"
                /\ OfKind(NewErrors, "recipe") =
                     <<RecipeError(listing[d + 1], "git_repositories cannot be empty")>>]_vars

C7_Witness ==
    /\ d = 1
    /\ pc = "examples"
    /\ ReadsRecipe(listing[1])
    /\ RecipeOf(listing[1]).git_repositories = <<>>
    /\ RecipeOf(listing[1]).dask_cluster # None
    /\ PassesEarlierChecks(RecipeOf(listing[1]), listing[1].name, SKIP_IMAGE_CHECK)
    /\ ERRORS = <<RecipeError(listing[1], "git_repositories cannot be empty")>>

---------------------------------------------------------------------------
(* C8: for every notebook below an example directory, a "non-empty cells"  *)
(* error is recorded iff some cell has non-empty outputs or a set          *)
(* execution_count; at most one per notebook, naming the number of such    *)
(* cells.  With "set" read as "not null", this fails for an                *)
(* execution_count of 0.                                                   *)

\* What the step records for each notebook of listing[d + 1] is what
\* Marked says of its cells
NonEmptyCellsErrorFor(Marked(_)) ==
    (AtExample /\ DIRECTORY_REGEX(listing[d + 1].name) /\ pc' # "crashed") =>
       \A i \in 1..Len(Notebooks_Of(listing[d + 1])) :
          LET f == Notebooks_Of(listing[d + 1])[i]
              marked == SelectSeq(f.node.json[1], Marked)
              recorded == SelectSeq(OfKind(NewErrors, "non-empty-cells"),
                                    LAMBDA m : m.path = f.path)
          IN  recorded = (IF marked # <<>>
                          THEN <<Msg("non-empty-cells", f.path, "", Len(marked), <<>>)>>
                          ELSE <<>>)

CellHasOutputOrCount(cell) == cell.outputs # <<>> \/ cell.execution_count # None

CellHasOutputOrNonZeroCount(cell) ==
    \/ cell.outputs # <<>>
    \/ cell.execution_count \notin {None, Some(0)}

---------------------------------------------------------------------------
(* C9: validate_recipe makes its checks in the order schema, name prefix,  *)
(* image existence, working_directory, git_repositories, instance_type,    *)
(* dask_cluster, disk_space and stops at the first that fails: an example  *)
(* directory adds at most one recipe error, with the message of the        *)
(* earliest failing check, and none when no check fails.                   *)

Resource(recipe) ==
    IF recipe.jupyter_server # None THEN recipe.jupyter_server
    ELSE IF recipe.deployment # None THEN recipe.deployment
    ELSE IF recipe.job # None THEN recipe.job
    ELSE recipe.rstudio_server

Workspace(recipe) ==
    IF recipe.jupyter_server # None THEN recipe.jupyter_server
    ELSE recipe.rstudio_server

\* The checks in the order of the claim: whether each fails on its own, and
\* the messages it can raise
ChecksInOrder(recipe, example_dir, skip_image_check) ==
    <<[fails |-> ~recipe.conforms,
       messages |-> {"schema"}],
      [fails |-> ~StartsWith(recipe.name, <<ExamplePrefix>>),
       messages |-> {"name needs to start with example-"}],
      [fails |-> ~skip_image_check /\ recipe.head_status # HttpOk,
       messages |-> {"image is not available on Docker Hub."}],
      [fails |-> \/ ~StartsWith(recipe.working_directory, <<WorkingDirPrefix>>)
                 \/ Remove(recipe.working_directory, WorkingDirPrefix) # example_dir,
       messages |-> {"working_directory needs to start with",
                     "working_directory needs to end with",
                     "working_directory needs to point to a real path"}],
      [fails |-> \/ recipe.git_repositories = <<>>
                 \/ \E i \in 1..Len(recipe.git_repositories) :
                       "path" \notin recipe.git_repositories[i],
       messages |-> {"git_repositories cannot be empty",
                     "At least one git_repository is missing a path"}],
      [fails |-> /\ Resource(recipe) # None
                 /\ Resource(recipe)[1].instance_type \notin instance_type_options,
       messages |-> {"instance_type is not a valid option"}],
      [fails |-> /\ recipe.dask_cluster # None
                 /\ Resource(recipe) # None
                 /\ \/ recipe.dask_cluster[1].num_workers > MaxWorkers
                    \/ recipe.dask_cluster[1].worker_instance_type
                          # Resource(recipe)[1].instance_type,
       messages |-> {"there should not be more than 3 workers per dask cluster.",
                     "Dask worker instance type should match"}],
      [fails |-> /\ Workspace(recipe) # None
                 /\ "disk_space" \notin Workspace(recipe)[1].keys,
       messages |-> {"disk_space is required for workspaces."}]>>

Failing(checks) == {i \in 1..Len(checks) : checks[i].fails}

Earliest(indices) == CHOOSE i \in indices : \A j \in indices : i <= j

C9_EarliestFailingCheck ==
    [][AtExample =>
          LET e == listing[d + 1]
              recorded == OfKind(NewErrors, "recipe")
              checks == ChecksInOrder(RecipeOf(e), e.name, SKIP_IMAGE_CHECK)
          IN  /\ Len(recorded) <= 1
              /\ pc' = "crashed" => recorded = <<>>
              /\ (ReadsRecipe(e) /\ pc' # "crashed") =>
                    IF Failing(checks) = {} THEN recorded = <<>>
                    ELSE /\ Len(recorded) = 1
                         /\ recorded[1].path = <<e.name, SATURN_DIR_NAME, SATURN_JSON_NAME>>
                         /\ recorded[1].title \in checks[Earliest(Failing(checks))].messages]_vars

C9_Witness ==
    /\ d = 1
    /\ pc = "examples"
    /\ ReadsRecipe(listing[1])
    /\ LET checks == ChecksInOrder(RecipeOf(listing[1]), listing[1].name, SKIP_IMAGE_CHECK)
       IN  /\ Cardinality(Failing(checks)) >= 2
           /\ Earliest(Failing(checks)) = 4
           /\ Len(ERRORS) = 1
           /\ ERRORS[1].kind = "recipe"
           /\ ERRORS[1].title \in checks[4].messages

---------------------------------------------------------------------------
(* C10: once the resources and both catalogs have loaded, nothing found    *)
(* in an example directory stops the run: when the process has ended,      *)
(* every entry of EXAMPLES_DIR has been processed once and the report has  *)
(* been produced.  Files that cannot be read as JSON are set aside: they   *)
(* are fatal by design.  This fails: an exception other than               *)
(* ValidationError, raised by a recipe, ends the run inside the loop.      *)

CatalogsDone == c = 2 /\ t = Len(templates)

\* Every notebook and every saturn.json of the tree is a JSON file
Readable(e) ==
    /\ \A i \in 1..Len(Notebooks_Of(e)) :
          /\ ~Notebooks_Of(e)[i].node.isdir
          /\ Notebooks_Of(e)[i].node.json # None
    /\ HasSaturnJson(e) => SaturnJson(e).json # None

C10_RunReachesTheReport ==
    (/\ exit_code # None
     /\ CatalogsDone
     /\ \A i \in 1..Len(listing) : Readable(listing[i]))
    => (pc = "done" /\ d = Len(listing))

============================================================================
